---- MODULE Spec2Model ----
(***************************************************************************)
(* Model of the fleet tracker's GPS simulation (utils/gpsSimulation.ts)    *)
(* and of the vehicle store that drives it (stores/vehicleStore.ts).       *)
(*                                                                         *)
(* Units.  The source computes in floating point; the model is fixed       *)
(* point:                                                                  *)
(*   speed        tenths of a km/h          (100 km/h = 1000)              *)
(*   coordinates  metres of the flat-earth frame the source measures       *)
(*                distances in (degrees * 111000)                          *)
(*   heading      whole degrees                                            *)
(*   time         seconds                                                  *)
(* An absent value (undefined / null) is the empty sequence <<>>, a        *)
(* present one the one-element sequence <<x>>.  Array indexes are the      *)
(* source's 0-based indexes; route[k] of the source is route[k + 1] here.  *)
(***************************************************************************)
EXTENDS Integers, Sequences, FiniteSets, TLC

VARIABLES
    vehicles,            \* store: vehicles (Vehicle[])
    simulationInterval,  \* module variable simulationInterval: <<>> (null) or <<timer id>>
    timers,              \* ids of the intervals the runtime still fires
    importing,           \* startGPSSimulation calls whose dynamic import has not resolved
    initializing,        \* startGPSSimulation calls awaiting initializeAllVehicleRoutes
    nextTimerId,         \* id the next setInterval returns
    starts,              \* number of startGPSSimulation calls made
    stopped,             \* the last of start/stop that was called is stop
    now,                 \* wall clock, seconds
    ticks,               \* number of batch updates run
    console,             \* speed-violation records written by console.warn
    probe,               \* per vehicle of the last batch: the tick's intermediate values
    selectedVehicleId,   \* store: selectedVehicleId, <<>> (null) or <<vehicle id>>
    routes,              \* MapboxMap: ids that have an entry in the routes state
    fetching,            \* MapboxMap: per vehicle id, the route fetches in flight
    fetchOutcome,        \* the last console line of a finished route fetch, <<>> if none
    effectDue,           \* MapboxMap: a dependency of the route effect has changed
    driver,              \* server: the Driver document of one driver
    requests             \* server: number of requests handled for that driver

vars == <<vehicles, simulationInterval, timers, importing, initializing,
          nextTimerId, starts, stopped, now, ticks, console, probe,
          selectedVehicleId, routes, fetching, fetchOutcome, effectDue,
          driver, requests>>

\* The state of the driver routes of the server
serverVars == <<driver, requests>>

\* The state of the browser application
clientVars == <<vehicles, simulationInterval, timers, importing, initializing,
                nextTimerId, starts, stopped, now, ticks, console, probe,
                selectedVehicleId, routes, fetching, fetchOutcome, effectDue>>

\* The state of the map's route fetching, apart from effectDue
mapVars == <<selectedVehicleId, routes, fetching, fetchOutcome>>

----------------------------------------------------------------------------
(* Bounds of the model *)

MaxSimTicks == 3
MaxTicks == 2
MaxStarts == 2
MaxVehicles == 2
MaxFetches == 2
MaxRequests == 4

----------------------------------------------------------------------------
(* Program constants *)

\* const SPEED_LIMIT = 100 (km/h), in tenths
SPEED_LIMIT == 1000
\* .slice(-450)
HISTORY_CAP == 450
\* setInterval(..., 4000)
TickSeconds == 4
\* (vehicle.currentSpeed / 3600) * 2
MoveSeconds == 2
\* distanceToDestination < 100 (metres)
ArrivalRadius == 100
\* distanceToDestination < 500 (metres)
SlowRadius == 500

----------------------------------------------------------------------------
(* Arithmetic *)

Min(a, b) == IF a <= b THEN a ELSE b

Max(a, b) == IF a >= b THEN a ELSE b

\* a / b rounded to the nearest integer, b > 0
RoundDiv(a, b) == (2 * a + b) \div (2 * b)

\* JavaScript's %: the result has the sign of the dividend
JsRem(a, n) == IF a >= 0 THEN a % n ELSE 0 - ((0 - a) % n)

\* 10000 * sin(d degrees), d in 1..90
SinTable ==
    <<175, 349, 523, 698, 872, 1045, 1219, 1392, 1564, 1736, 1908, 2079,
      2250, 2419, 2588, 2756, 2924, 3090, 3256, 3420, 3584, 3746, 3907,
      4067, 4226, 4384, 4540, 4695, 4848, 5000, 5150, 5299, 5446, 5592,
      5736, 5878, 6018, 6157, 6293, 6428, 6561, 6691, 6820, 6947, 7071,
      7193, 7314, 7431, 7547, 7660, 7771, 7880, 7986, 8090, 8192, 8290,
      8387, 8480, 8572, 8660, 8746, 8829, 8910, 8988, 9063, 9135, 9205,
      9272, 9336, 9397, 9455, 9511, 9563, 9613, 9659, 9703, 9744, 9781,
      9816, 9848, 9877, 9903, 9925, 9945, 9962, 9976, 9986, 9994, 9998,
      10000>>

\* 10000 * tan((d - 1/2) degrees), d in 1..45
TanTable ==
    <<87, 262, 437, 612, 787, 963, 1139, 1317, 1495, 1673, 1853, 2035,
      2217, 2401, 2586, 2773, 2962, 3153, 3346, 3541, 3739, 3939, 4142,
      4348, 4557, 4770, 4986, 5206, 5430, 5658, 5890, 6128, 6371, 6619,
      6873, 7133, 7400, 7673, 7954, 8243, 8541, 8847, 9163, 9490, 9827>>

\* Math.sin of a heading in degrees, times 10000
Sin(deg) ==
    LET d == deg % 360
    IN  IF d = 0 \/ d = 180 THEN 0
        ELSE IF d <= 90 THEN SinTable[d]
        ELSE IF d < 180 THEN SinTable[180 - d]
        ELSE IF d <= 270 THEN 0 - SinTable[d - 180]
        ELSE 0 - SinTable[360 - d]

\* Math.cos of a heading in degrees, times 10000
Cos(deg) == Sin(deg + 90)

\* atan(a / b) in degrees for 0 <= a <= b, b > 0, to the nearest degree
OctantDeg(a, b) == Cardinality({d \in 1..45 : TanTable[d] * b <= 10000 * a})

\* atan2 in the first quadrant (y >= 0, x >= 0, not both 0)
QuadrantDeg(y, x) == IF y <= x THEN OctantDeg(y, x) ELSE 90 - OctantDeg(x, y)

\* (Math.atan2(y, x) * 180) / Math.PI, to the nearest degree, in -179..180
Atan2Deg(y, x) ==
    IF x = 0 /\ y = 0 THEN 0
    ELSE IF x >= 0 /\ y >= 0 THEN QuadrantDeg(y, x)
    ELSE IF x < 0 /\ y >= 0 THEN 180 - QuadrantDeg(y, 0 - x)
    ELSE IF x < 0 THEN QuadrantDeg(0 - y, 0 - x) - 180
    ELSE 0 - QuadrantDeg(0 - y, x)

\* The square of Math.sqrt(Math.pow(dlat * 111000, 2) + Math.pow(dlng * 111000, 2)):
\* distances are compared through their squares
Dist2(p, q) == (p.lat - q.lat) * (p.lat - q.lat) + (p.lng - q.lng) * (p.lng - q.lng)

\* Math.sqrt, rounded down
Sqrt(n) ==
    LET RECURSIVE search(_, _)
        search(lo, hi) ==
            IF lo >= hi THEN lo
            ELSE LET mid == (lo + hi + 1) \div 2
                 IN  IF mid * mid <= n THEN search(mid, hi) ELSE search(lo, mid - 1)
    IN  search(0, Min(n, 46340))

Pos(lat, lng) == [lat |-> lat, lng |-> lng]

----------------------------------------------------------------------------
(* utils/gpsSimulation.ts *)

\* findClosestRoutePoint: the first index (0-based) of a route point at the
\* least distance from position; 0 for an empty route
findClosestRoutePoint(position, route) ==
    IF Len(route) = 0 THEN 0
    ELSE (CHOOSE i \in 1..Len(route) :
            \A j \in 1..Len(route) :
                /\ Dist2(route[i], position) <= Dist2(route[j], position)
                /\ (Dist2(route[j], position) = Dist2(route[i], position) => i <= j)) - 1

\* Mutant of getNextRouteTarget: a look-ahead of two points
getNextRouteTargetSkipping(vehicle, currentRouteIndex) ==
    LET targetIndex == Min(currentRouteIndex + 2, Len(vehicle.route) - 1)
    IN  [lat |-> vehicle.route[targetIndex + 1].lat,
         lng |-> vehicle.route[targetIndex + 1].lng,
         index |-> targetIndex]

\* getNextRouteTarget: {lat, lng, index}
getNextRouteTarget(vehicle, currentRouteIndex) ==
    IF Len(vehicle.route) = 0
    THEN [lat |-> vehicle.destination.lat, lng |-> vehicle.destination.lng, index |-> 0 - 1]
    ELSE LET targetIndex == Min(currentRouteIndex + 1, Len(vehicle.route) - 1)
         IN  IF targetIndex >= Len(vehicle.route)
             THEN [lat |-> vehicle.destination.lat, lng |-> vehicle.destination.lng,
                   index |-> Len(vehicle.route)]
             ELSE [lat |-> vehicle.route[targetIndex + 1].lat,
                   lng |-> vehicle.route[targetIndex + 1].lng,
                   index |-> targetIndex]

\* const distanceKm = (vehicle.currentSpeed / 3600) * 2, in metres:
\* (tenths of km/h) * 100 m * seconds / 3600
distanceKm(vehicle) == RoundDiv(vehicle.currentSpeed * 100 * MoveSeconds, 3600)

\* The speed after the random perturbations and before any clamp:
\* jitter of +-5 %, traffic slowdown, clear-road speed-up, highway burst.
\* rnd holds the tick's Math.random() draws.
perturbedSpeed(vehicle, rnd) ==
    LET jittered == RoundDiv(vehicle.currentSpeed * (1000 + rnd.jitter), 1000)
        slowed == IF rnd.traffic THEN Max(100, RoundDiv(jittered, 2)) ELSE jittered
        cleared == IF rnd.clearRoad THEN Min(600, RoundDiv(slowed * 12, 10)) ELSE slowed
    IN  IF rnd.highway THEN 850 + rnd.burst ELSE cleared

\* Mutant of boundedSpeed: the upper clamp alone
boundedSpeedWithoutFloor(vehicle, rnd) == Min(980, perturbedSpeed(vehicle, rnd))

\* newSpeed = Math.max(5, Math.min(98, newSpeed))
boundedSpeed(vehicle, rnd) == Max(50, Min(980, perturbedSpeed(vehicle, rnd)))

\* if (newSpeed > SPEED_LIMIT): the console.warn of a speed violation
speedViolation(vehicle, rnd) == boundedSpeed(vehicle, rnd) > SPEED_LIMIT

\* Mutant of limitedSpeed: the clamps' results are dropped
limitedSpeedUnclamped(vehicle, rnd) == perturbedSpeed(vehicle, rnd)

\* newSpeed after the speed-limit check
limitedSpeed(vehicle, rnd) ==
    IF speedViolation(vehicle, rnd) THEN SPEED_LIMIT ELSE boundedSpeed(vehicle, rnd)

\* Mutant of steerTarget: any non-empty route is followed
steerTargetAnyRoute(vehicle) ==
    IF Len(vehicle.route) > 0
    THEN LET target == getNextRouteTarget(vehicle,
                           findClosestRoutePoint(vehicle.position, vehicle.route))
         IN  Pos(target.lat, target.lng)
    ELSE Pos(vehicle.destination.lat, vehicle.destination.lng)

\* The point the tick steers to: the route target when the vehicle has a
\* route of more than 2 points (the else branch of target.index <
\* route.length included), the destination otherwise
steerTarget(vehicle) ==
    IF Len(vehicle.route) > 2
    THEN LET currentRouteIndex == findClosestRoutePoint(vehicle.position, vehicle.route)
             target == getNextRouteTarget(vehicle, currentRouteIndex)
         IN  IF target.index < Len(vehicle.route)
             THEN Pos(target.lat, target.lng)
             ELSE Pos(vehicle.destination.lat, vehicle.destination.lng)
    ELSE Pos(vehicle.destination.lat, vehicle.destination.lng)

\* (Math.atan2(lngDiff, latDiff) * 180) / Math.PI toward the steer target
targetHeading(vehicle) ==
    LET target == steerTarget(vehicle)
    IN  Atan2Deg(target.lng - vehicle.position.lng, target.lat - vehicle.position.lat)

\* Mutant of normalizeHeading: the remainder alone, which keeps the sign
normalizeHeadingRemainder(h) == JsRem(h, 360)

\* newHeading = ((newHeading % 360) + 360) % 360
normalizeHeading(h) == JsRem(JsRem(h, 360) + 360, 360)

\* statusCalculations.calculateNewPosition(position, distanceKm, heading):
\* distance along heading, equirectangular, in the flat-earth frame
calculateNewPosition(position, distance, heading) ==
    Pos(position.lat + RoundDiv(distance * Cos(heading), 10000),
        position.lng + RoundDiv(distance * Sin(heading), 10000))

\* newPosition of the tick
movedPosition(vehicle) ==
    calculateNewPosition(vehicle.position, distanceKm(vehicle), targetHeading(vehicle))

\* Mutant of withinOfDestination: the squared distance is compared with r
withinOfDestinationNoRoot(position, vehicle, r) == Dist2(position, vehicle.destination) < r

\* distanceToDestination < r, for r in metres
withinOfDestination(position, vehicle, r) == Dist2(position, vehicle.destination) < r * r

\* statusCalculations.calculateVehicleStatus(vehicle).status
calculateVehicleStatus(vehicle, t) ==
    IF /\ vehicle.currentSpeed < 80
       /\ Len(vehicle.lastStopTime) = 1
       /\ t - vehicle.lastStopTime[1] > 600
    THEN "critical"
    ELSE IF /\ Len(vehicle.scheduledETA) = 1
            /\ LET remaining == vehicle.scheduledETA[1] - t
                   metres == Sqrt(Dist2(vehicle.position, vehicle.destination))
               IN  IF remaining > 0
                   \* speed/10 km/h < (metres/1000) / (remaining/3600)
                   THEN vehicle.currentSpeed * remaining < metres * 36
                   ELSE remaining = 0 /\ metres > 0
    THEN "warning"
    ELSE "on-time"

\* Mutant of slice: one entry too many is kept
sliceOffByOne(array, n) == SubSeq(array, Max(Len(array) - n, 1), Len(array))

\* Mutant of slice: the first n entries are kept, as slice(0, n) does
sliceFromStart(array, n) == SubSeq(array, 1, Min(Len(array), n))

\* array.slice(-n): the last n entries, all of them when there are fewer
slice(array, n) == SubSeq(array, Max(Len(array) - n, 0) + 1, Len(array))

\* Mutant of throws: a missing destination raises nothing
throwsNever(vehicle) == FALSE

\* simulateGPSUpdate throws (TypeError: reading 'lat' of undefined) when the
\* vehicle has no destination
throws(vehicle) == ~vehicle.destination.defined

\* Mutant of newHistoryEntry: the snapshot holds the values the tick computed
newHistoryEntryOfResult(vehicle, finalPosition, newSpeed, t) ==
    [timestamp |-> t, status |-> vehicle.status,
     speed |-> newSpeed, position |-> finalPosition]

\* const newHistoryEntry = { timestamp: now, status: vehicle.status,
\* speed: vehicle.currentSpeed, position: vehicle.position }; finalPosition
\* and newSpeed are the values in scope that it does not use
newHistoryEntry(vehicle, finalPosition, newSpeed, t) ==
    [timestamp |-> t, status |-> vehicle.status,
     speed |-> vehicle.currentSpeed, position |-> vehicle.position]

\* Mutant of updatedLastStopTime: every slow tick restarts the stop time
updatedLastStopTimeRestarted(vehicle, newSpeed, t) ==
    IF newSpeed < 50 THEN <<t>> ELSE <<>>

\* let lastStopTime = vehicle.lastStopTime; if (newSpeed < 5 && !lastStopTime)
\* lastStopTime = now; else if (newSpeed >= 5) lastStopTime = null
updatedLastStopTime(vehicle, newSpeed, t) ==
    IF newSpeed < 50 /\ Len(vehicle.lastStopTime) = 0 THEN <<t>>
    ELSE IF newSpeed >= 50 THEN <<>>
    ELSE vehicle.lastStopTime

\* Mutant of preservedRoute: the updated vehicle is built without the route
preservedRouteDropped(vehicle) == <<>>

\* route: vehicle.route of the updated vehicle
preservedRoute(vehicle) == vehicle.route

\* Mutant of updatedStatus: the status is computed from the vehicle as it
\* was before the update
updatedStatusOfInput(vehicle, updatedVehicle, t) == calculateVehicleStatus(vehicle, t)

\* const statusCalc = calculateVehicleStatus(updatedVehicle);
\* updatedVehicle.status = statusCalc.status
updatedStatus(vehicle, updatedVehicle, t) == calculateVehicleStatus(updatedVehicle, t)

\* Mutant of approachSpeed: no cap in the last 500 m
approachSpeedUncapped(speed, newPosition, vehicle) ==
    IF withinOfDestination(newPosition, vehicle, ArrivalRadius) THEN 0 ELSE speed

\* Mutant of approachSpeed: the vehicle is slowed but never stopped
approachSpeedUnstopped(speed, newPosition, vehicle) ==
    IF withinOfDestination(newPosition, vehicle, SlowRadius) THEN Min(speed, 200) ELSE speed

\* if (distanceToDestination < 500) newSpeed = Math.min(newSpeed, 20);
\* if (distanceToDestination < 100) newSpeed = 0
approachSpeed(speed, newPosition, vehicle) ==
    LET slowed == IF withinOfDestination(newPosition, vehicle, SlowRadius)
                  THEN Min(speed, 200) ELSE speed
    IN  IF withinOfDestination(newPosition, vehicle, ArrivalRadius) THEN 0 ELSE slowed

\* Mutant of driftedTemperature: the sum is stored as it is
driftedTemperatureUnclamped(temperature, tempVariation) == temperature + tempVariation

\* Math.max(0, Math.min(10, cargoTemperature + tempVariation)), in hundredths
driftedTemperature(temperature, tempVariation) ==
    Max(0, Min(1000, temperature + tempVariation))

\* simulateGPSUpdate(vehicle), for a vehicle with a destination, at time t
\* with draws rnd
simulateGPSUpdate(vehicle, rnd, t) ==
    LET newPosition == movedPosition(vehicle)
        newHeading == normalizeHeading(targetHeading(vehicle))
        arrived == withinOfDestination(newPosition, vehicle, ArrivalRadius)
        finalPosition == IF arrived
                         THEN Pos(vehicle.destination.lat, vehicle.destination.lng)
                         ELSE newPosition
        newSpeed == approachSpeed(limitedSpeed(vehicle, rnd), newPosition, vehicle)
        appended == Append(vehicle.statusHistory,
                           newHistoryEntry(vehicle, finalPosition, newSpeed, t))
        updatedHistory == slice(appended, HISTORY_CAP)
        lastStopTime == updatedLastStopTime(vehicle, newSpeed, t)
        updatedVehicle == [vehicle EXCEPT !.position = finalPosition,
                                          !.currentSpeed = newSpeed,
                                          !.heading = newHeading,
                                          !.lastStopTime = lastStopTime,
                                          !.statusHistory = updatedHistory,
                                          !.route = preservedRoute(vehicle)]
        withStatus == [updatedVehicle EXCEPT
                          !.status = updatedStatus(vehicle, updatedVehicle, t)]
    IN  IF Len(withStatus.cargoTemperature) = 1
        THEN [withStatus EXCEPT !.cargoTemperature =
                  <<driftedTemperature(withStatus.cargoTemperature[1], rnd.temp)>>]
        ELSE withStatus

\* Mutant of simulateAllVehicles: each update starts from the speed and
\* position of the vehicle's latest snapshot, the collection of a tick ago
simulateAllVehiclesOfSnapshot(vs, rnds, t) ==
    [i \in 1..Len(vs) |->
        LET h == vs[i].statusHistory
            old == IF Len(h) = 0 THEN vs[i]
                   ELSE [vs[i] EXCEPT !.currentSpeed = h[Len(h)].speed,
                                      !.position = h[Len(h)].position]
        IN  simulateGPSUpdate(old, rnds[i], t)]

\* simulateAllVehicles: vehicles.map(simulateGPSUpdate); rnds[i] are the
\* draws of the i-th vehicle's update
simulateAllVehicles(vs, rnds, t) ==
    [i \in 1..Len(vs) |-> simulateGPSUpdate(vs[i], rnds[i], t)]

\* The console.warn records one batch writes
batchViolations(vs, rnds, t) ==
    LET RECURSIVE collect(_)
        collect(i) ==
            IF i > Len(vs) THEN <<>>
            ELSE (IF speedViolation(vs[i], rnds[i])
                  THEN <<[vehicleId |-> vs[i].id,
                          observedSpeed |-> boundedSpeed(vs[i], rnds[i]),
                          limit |-> SPEED_LIMIT, timestamp |-> t]>>
                  ELSE <<>>) \o collect(i + 1)
    IN  collect(1)

\* What a batch computed on the way, per vehicle
batchProbe(vs, rnds) ==
    [i \in 1..Len(vs) |->
        [raw |-> perturbedSpeed(vs[i], rnds[i]),
         distance |-> distanceKm(vs[i]),
         target |-> steerTarget(vs[i]),
         moved |-> movedPosition(vs[i])]]

----------------------------------------------------------------------------
(* server/routes/drivers.js: the Driver document *)

\* new Driver({...}) of the create and register routes: the counters and
\* lists take the schema's defaults
NewDriver ==
    [status |-> "active", activeJobs |-> <<>>, completedJobs |-> <<>>,
     earningsHistory |-> <<>>, totalDeliveries |-> 0, totalEarnings |-> 0,
     currentMonthEarnings |-> 0, pendingEarnings |-> 0]

----------------------------------------------------------------------------
(* The draws of Math.random() *)

\* (Math.random() - 0.5) * 2 * 0.05, in thousandths: the ends and the middle
Jitters == {0 - 50, 0, 49}

\* Math.random() * 13 of the highway burst, in tenths of a km/h
Bursts == {0, 129}

\* (Math.random() - 0.5) * 0.5, in hundredths of a degree; drawn only for a
\* vehicle that has a cargoTemperature
Temps(vehicle) == IF Len(vehicle.cargoTemperature) = 1 THEN {0 - 25, 0, 24} ELSE {0}

\* The draws of one simulateGPSUpdate call.  A highway burst overwrites the
\* speed the earlier branches computed, so they are enumerated without it.
Draws(vehicle) ==
    {[jitter |-> j, traffic |-> t, clearRoad |-> c, highway |-> FALSE,
      burst |-> 0, temp |-> d] :
        j \in Jitters, t \in BOOLEAN, c \in BOOLEAN, d \in Temps(vehicle)}
    \cup
    {[jitter |-> 0, traffic |-> FALSE, clearRoad |-> FALSE, highway |-> TRUE,
      burst |-> b, temp |-> d] : b \in Bursts, d \in Temps(vehicle)}

\* The draws the store's batch tick enumerates per vehicle: no branch
\* taken, or a highway burst
TickDraws(vehicle) ==
    {r \in Draws(vehicle) :
        /\ r.temp = 0
        /\ \/ r.highway /\ r.burst = 129
           \/ ~r.highway /\ r.jitter = 0 /\ ~r.clearRoad /\ ~r.traffic}

----------------------------------------------------------------------------
(* Vehicles *)

Vehicle(id, position, destination, route, speed, history, lastStop, eta, temp) ==
    [id |-> id, position |-> position, destination |-> destination,
     route |-> route, currentSpeed |-> speed, heading |-> 0,
     scheduledETA |-> eta, cargoTemperature |-> temp, lastStopTime |-> lastStop,
     status |-> "on-time", statusHistory |-> history]

Dest(lat, lng) == [defined |-> TRUE, lat |-> lat, lng |-> lng]

\* The ids the store's operations are called with
VehicleIds == {"v1", "job-1", "job-2"}

\* destination: undefined
NoDestination == [defined |-> FALSE, lat |-> 0, lng |-> 0]

\* A history of n snapshots with timestamps 1..n, oldest first
History(n, position) ==
    [k \in 1..n |-> [timestamp |-> k, status |-> "on-time", speed |-> 400,
                     position |-> position]]

\* Position, destination and route of the vehicles the update is applied to
Scenarios ==
    { \* no route, 5 km from the destination
      [position |-> Pos(0, 0), destination |-> Dest(3000, 4000), route |-> <<>>],
      \* no route, 50 m from the destination
      [position |-> Pos(0, 0), destination |-> Dest(30, 40), route |-> <<>>],
      \* no route, 300 m from the destination
      [position |-> Pos(0, 0), destination |-> Dest(0, 0 - 300), route |-> <<>>],
      \* no route, on the destination
      [position |-> Pos(500, 500), destination |-> Dest(500, 500), route |-> <<>>],
      \* a route of 2 points
      [position |-> Pos(0, 0), destination |-> Dest(0 - 2000, 1000),
       route |-> <<Pos(0, 0), Pos(0 - 2000, 1000)>>],
      \* a route of 4 points, the vehicle at its start
      [position |-> Pos(0, 0), destination |-> Dest(2000, 1000),
       route |-> <<Pos(0, 0), Pos(1000, 0), Pos(1000, 1000), Pos(2000, 1000)>>],
      \* a route of 3 points whose last point is the closest one, the
      \* destination 400 m beyond it
      [position |-> Pos(0, 650), destination |-> Dest(0, 1000),
       route |-> <<Pos(0, 0), Pos(0, 300), Pos(0, 600)>>],
      \* a route of 3 points that first leads away from a destination 60 m off
      [position |-> Pos(0, 0), destination |-> Dest(60, 0),
       route |-> <<Pos(0, 0), Pos(0 - 400, 0), Pos(60, 0)>>],
      \* a route of 4 points, the vehicle next to its second point
      [position |-> Pos(990, 20), destination |-> Dest(2000, 1000),
       route |-> <<Pos(0, 0), Pos(1000, 0), Pos(1000, 1000), Pos(2000, 1000)>>],
      \* a route of 1 point that is off the direct line
      [position |-> Pos(0, 0), destination |-> Dest(1000, 1000),
       route |-> <<Pos(0, 800)>>] }

\* currentSpeed of the input, tenths of a km/h: negative, zero, crawling,
\* city, the highway cap, the limit, beyond the limit
InputSpeeds == {0 - 200, 0, 30, 400, 980, 1000, 1500}

\* statusHistory length of the input: empty, below, at and above the cap
InputHistories == {HISTORY_CAP - 1, HISTORY_CAP, HISTORY_CAP + 3}

\* The vehicles simulateGPSUpdate is applied to
SimInputs ==
    {Vehicle("v1", s.position, s.destination, s.route, speed, <<>>, <<>>, <<>>, <<>>) :
        s \in Scenarios, speed \in InputSpeeds}
    \cup
    {Vehicle("v1", Pos(0, 0), Dest(3000, 4000), <<>>, 400, History(n, Pos(0, 0)),
             <<>>, <<>>, <<>>) : n \in InputHistories}
    \cup
    {Vehicle("v1", Pos(500, 500), Dest(500, 500), <<>>, 30, <<>>, stop, eta, temp) :
        stop \in {<<>>, <<9000>>}, eta \in {<<>>, <<12000>>},
        temp \in {<<>>, <<10>>, <<990>>}}
    \cup
    \* 5 km from the destination, stopped or not, with a stop time 1000 s or
    \* 8 s old or none, due in 100 s, at the first tick, or without a schedule
    {Vehicle("v1", Pos(0, 0), Dest(3000, 4000), <<>>, speed, <<>>, stop, eta, <<>>) :
        speed \in {0, 400}, stop \in {<<>>, <<9000>>, <<9992>>},
        eta \in {<<>>, <<10100>>, <<10004>>}}

----------------------------------------------------------------------------
(* The batch update *)

\* The callback's body: const { vehicles } = get(); set({ vehicles:
\* simulateAllVehicles(vehicles) }).  An update that throws leaves the map,
\* and the callback, before set is called.
RunBatch(rnds) ==
    LET t == now + TickSeconds
        thrower == {i \in 1..Len(vehicles) : throws(vehicles[i])}
    IN  /\ now' = t
        /\ ticks' = ticks + 1
        /\ IF thrower = {}
           THEN /\ vehicles' = simulateAllVehicles(vehicles, rnds, t)
                /\ console' = console \o batchViolations(vehicles, rnds, t)
                /\ probe' = batchProbe(vehicles, rnds)
                /\ effectDue' = TRUE
           ELSE LET first == CHOOSE i \in thrower : \A j \in thrower : i <= j
                    done == SubSeq(vehicles, 1, first - 1)
                IN  /\ vehicles' = vehicles
                    /\ console' = console \o batchViolations(done, rnds, t)
                    /\ probe' = <<>>
                    /\ effectDue' = effectDue

----------------------------------------------------------------------------
(* simulateGPSUpdate applied to one vehicle, tick after tick *)

SimInit ==
    /\ vehicles \in {<<v>> : v \in SimInputs}
    /\ simulationInterval = <<>>
    /\ timers = {}
    /\ importing = 0
    /\ initializing = 0
    /\ nextTimerId = 1
    /\ starts = 0
    /\ stopped = FALSE
    /\ now = 10000
    /\ ticks = 0
    /\ console = <<>>
    /\ probe = <<>>
    /\ selectedVehicleId = <<>>
    /\ routes = {}
    /\ fetching = [id \in VehicleIds |-> 0]
    /\ fetchOutcome = <<>>
    /\ effectDue = TRUE
    /\ driver = NewDriver
    /\ requests = 0

GPSUpdate ==
    /\ ticks < MaxSimTicks
    /\ \E rnd \in Draws(vehicles[1]) : RunBatch(<<rnd>>)
    /\ UNCHANGED serverVars
    /\ UNCHANGED <<simulationInterval, timers, importing, initializing,
                   nextTimerId, starts, stopped, mapVars>>

SimNext == GPSUpdate

SimSpec == SimInit /\ [][SimNext]_vars

----------------------------------------------------------------------------
(* simulateGPSUpdate applied to one vehicle without end.  The movement reads
   position, currentSpeed, route and destination only; statusHistory and the
   clock, which grow with every tick and are never read by it, are held
   still so that a vehicle that moves in a cycle returns to the same state;
   ticks holds the parity of the number of ticks, so that every tick is a
   step. *)

\* The vehicles of the endless drive: 300 m and 5 km from the destination
\* on the direct line, and at the start of a route of 3 points whose last
\* point is 400 m short of the destination; standing or at 40 km/h
DriveInputs ==
    {Vehicle("v1", Pos(0, 0), destination, route, speed, <<>>, <<>>, <<>>, <<>>) :
        speed \in {0, 400},
        destination \in {Dest(0, 0 - 300), Dest(3000, 4000)},
        route \in {<<>>}}
    \cup
    {Vehicle("v1", Pos(0, 0), Dest(0, 1000), <<Pos(0, 0), Pos(0, 300), Pos(0, 600)>>,
             speed, <<>>, <<>>, <<>>, <<>>) : speed \in {0, 400}}

DriveInit ==
    /\ vehicles \in {<<v>> : v \in DriveInputs}
    /\ simulationInterval = <<>>
    /\ timers = {}
    /\ importing = 0
    /\ initializing = 0
    /\ nextTimerId = 1
    /\ starts = 0
    /\ stopped = FALSE
    /\ now = 10000
    /\ ticks = 0
    /\ console = <<>>
    /\ probe = <<>>
    /\ selectedVehicleId = <<>>
    /\ routes = {}
    /\ fetching = [id \in VehicleIds |-> 0]
    /\ fetchOutcome = <<>>
    /\ effectDue = TRUE
    /\ driver = NewDriver
    /\ requests = 0

\* One simulateGPSUpdate of the vehicle
Drive ==
    /\ \E rnd \in TickDraws(vehicles[1]) :
           /\ vehicles' = <<[simulateGPSUpdate(vehicles[1], rnd, now)
                                EXCEPT !.statusHistory = <<>>]>>
           /\ probe' = batchProbe(vehicles, <<rnd>>)
    /\ ticks' = 1 - ticks
    /\ UNCHANGED serverVars
    /\ UNCHANGED <<simulationInterval, timers, importing, initializing, nextTimerId,
                   starts, stopped, now, console, mapVars, effectDue>>

DriveNext == Drive

\* What every Drive step does to ticks
Fired == ticks' = 1 - ticks

\* The interval keeps firing.  Drive is enabled in every state and every
\* Drive step is a Fired step that changes ticks, so that weak fairness of
\* Fired on ticks is weak fairness of Drive
DriveSpec == DriveInit /\ [][DriveNext]_vars /\ WF_ticks(Fired)

----------------------------------------------------------------------------
(* stores/vehicleStore.ts *)

\* createInitialVehicles: vehicles with a destination, a speed of 30-60 km/h,
\* a scheduledETA, no route, no lastStopTime and an empty history
InitialFleets ==
    {<<Vehicle("v1", Pos(0, 0), Dest(3000, 4000), <<>>, speed, <<>>, <<>>,
               <<10450>>, <<>>)>> : speed \in {450}}

\* The vehicles addVehicle is called with: a job's vehicle (route: []), and
\* a vehicle object without a destination
NewVehicles ==
    {Vehicle("job-1", Pos(0, 0), Dest(0, 0 - 300), <<>>, 450, <<>>, <<>>, <<>>, <<>>),
     Vehicle("job-2", Pos(0, 0), NoDestination, <<>>, 450, <<>>, <<>>, <<>>, <<>>)}

\* The routes a route fetch delivers
FetchedRoutes ==
    {<<Pos(0, 0), Pos(1000, 0), Pos(1000, 1000)>>}

Init ==
    /\ vehicles \in InitialFleets
    /\ simulationInterval = <<>>
    /\ timers = {}
    /\ importing = 0
    /\ initializing = 0
    /\ nextTimerId = 1
    /\ starts = 0
    /\ stopped = FALSE
    /\ now = 10000
    /\ ticks = 0
    /\ console = <<>>
    /\ probe = <<>>
    /\ selectedVehicleId = <<>>
    /\ routes = {}
    /\ fetching = [id \in VehicleIds |-> 0]
    /\ fetchOutcome = <<>>
    /\ effectDue = TRUE
    /\ driver = NewDriver
    /\ requests = 0

\* Mutant of withRoute: an unknown id gets a vehicle made for the route
withRouteUpserting(vs, vehicleId, route) ==
    IF \E i \in 1..Len(vs) : vs[i].id = vehicleId
    THEN [i \in 1..Len(vs) |->
             IF vs[i].id = vehicleId THEN [vs[i] EXCEPT !.route = route] ELSE vs[i]]
    ELSE Append(vs, Vehicle(vehicleId, route[1], NoDestination, route, 0,
                            <<>>, <<>>, <<>>, <<>>))

\* state.vehicles.map((vehicle) => vehicle.id === vehicleId ?
\* { ...vehicle, route } : vehicle)
withRoute(vs, vehicleId, route) ==
    [i \in 1..Len(vs) |->
        IF vs[i].id = vehicleId THEN [vs[i] EXCEPT !.route = route] ELSE vs[i]]

\* updateVehicleRoute(vehicleId, route)
updateVehicleRoute(vehicleId, route) ==
    /\ vehicles' = withRoute(vehicles, vehicleId, route)
    /\ effectDue' = TRUE
    /\ UNCHANGED serverVars
    /\ UNCHANGED <<simulationInterval, timers, importing, initializing,
                   nextTimerId, starts, stopped, now, ticks, console, probe, mapVars>>

\* addVehicle(vehicle)
addVehicle(vehicle) ==
    /\ Len(vehicles) < MaxVehicles
    /\ \A i \in 1..Len(vehicles) : vehicles[i].id # vehicle.id
    /\ vehicles' = Append(vehicles, vehicle)
    /\ effectDue' = TRUE
    /\ UNCHANGED serverVars
    /\ UNCHANGED <<simulationInterval, timers, importing, initializing,
                   nextTimerId, starts, stopped, now, ticks, console, probe, mapVars>>

\* removeVehicle(vehicleId)
removeVehicle(vehicleId) ==
    /\ vehicles' = SelectSeq(vehicles, LAMBDA v : v.id # vehicleId)
    /\ effectDue' = TRUE
    /\ UNCHANGED serverVars
    /\ UNCHANGED <<simulationInterval, timers, importing, initializing,
                   nextTimerId, starts, stopped, now, ticks, console, probe, mapVars>>

\* startGPSSimulation(): clears the interval simulationInterval names and
\* starts the dynamic import; the rest runs in the import's then-callback
startGPSSimulation ==
    /\ starts < MaxStarts
    /\ starts' = starts + 1
    /\ timers' = IF Len(simulationInterval) = 1
                 THEN timers \ {simulationInterval[1]}
                 ELSE timers
    /\ importing' = importing + 1
    /\ stopped' = FALSE
    /\ UNCHANGED serverVars
    /\ UNCHANGED <<vehicles, simulationInterval, initializing, nextTimerId,
                   now, ticks, console, probe, mapVars, effectDue>>

\* The import resolves: the callback reads the vehicles and awaits
\* initializeAllVehicleRoutes(vehicles)
importResolved ==
    /\ importing > 0
    /\ importing' = importing - 1
    /\ initializing' = initializing + 1
    /\ UNCHANGED serverVars
    /\ UNCHANGED <<vehicles, simulationInterval, timers, nextTimerId, starts,
                   stopped, now, ticks, console, probe, mapVars, effectDue>>

\* initializeAllVehicleRoutes resolves: simulationInterval = setInterval(...)
routesInitialized ==
    /\ initializing > 0
    /\ initializing' = initializing - 1
    /\ simulationInterval' = <<nextTimerId>>
    /\ timers' = timers \cup {nextTimerId}
    /\ nextTimerId' = nextTimerId + 1
    /\ UNCHANGED serverVars
    /\ UNCHANGED <<vehicles, importing, starts, stopped, now, ticks, console, probe,
                   mapVars, effectDue>>

\* The runtime fires interval id: the callback runs one batch update
intervalFires(id) ==
    /\ id \in timers
    /\ ticks < MaxTicks
    /\ \E rnds \in [1..Len(vehicles) -> UNION {TickDraws(v) : v \in NewVehicles}] :
          /\ \A i \in 1..Len(vehicles) : rnds[i] \in TickDraws(vehicles[i])
          /\ RunBatch(rnds)
    /\ UNCHANGED serverVars
    /\ UNCHANGED <<simulationInterval, timers, importing, initializing,
                   nextTimerId, starts, stopped, mapVars>>

\* stopGPSSimulation()
stopGPSSimulation ==
    /\ IF Len(simulationInterval) = 1
       THEN /\ timers' = timers \ {simulationInterval[1]}
            /\ simulationInterval' = <<>>
       ELSE UNCHANGED <<timers, simulationInterval>>
    /\ stopped' = TRUE
    /\ UNCHANGED serverVars
    /\ UNCHANGED <<vehicles, importing, initializing, nextTimerId, starts,
                   now, ticks, console, probe, mapVars, effectDue>>

Next ==
    \/ startGPSSimulation
    \/ importResolved
    \/ routesInitialized
    \/ \E id \in 1..MaxStarts : intervalFires(id)
    \/ stopGPSSimulation
    \/ \E id \in VehicleIds, route \in FetchedRoutes : updateVehicleRoute(id, route)
    \/ \E vehicle \in NewVehicles : addVehicle(vehicle)
    \/ \E id \in VehicleIds : removeVehicle(id)

Spec == Init /\ [][Next]_vars

----------------------------------------------------------------------------
(* components/MapboxMap.tsx: the route effect, with the map loaded and a
   Mapbox token configured, next to the running simulation *)

\* setSelectedVehicle(vehicleId); the map's effect depends on the value
setSelectedVehicle(selection) ==
    /\ selectedVehicleId' = selection
    /\ effectDue' = (effectDue \/ selection # selectedVehicleId)
    /\ UNCHANGED serverVars
    /\ UNCHANGED <<vehicles, simulationInterval, timers, importing, initializing,
                   nextTimerId, starts, stopped, now, ticks, console, probe,
                   routes, fetching, fetchOutcome>>

\* vehicle.destination && !routes[vehicle.id]
needsRoute(vehicle) == vehicle.destination.defined /\ vehicle.id \notin routes

\* The fetchRouteFromMapbox calls one run of the effect makes for vehicle id:
\* one if it is the selected vehicle, one from the loop over all vehicles
\* if it has no route points
fetchesStarted(id) ==
    LET ofSelected == {i \in 1..Len(vehicles) :
                          /\ vehicles[i].id = id
                          /\ selectedVehicleId = <<id>>
                          /\ needsRoute(vehicles[i])}
        ofLoop == {i \in 1..Len(vehicles) :
                      /\ vehicles[i].id = id
                      /\ needsRoute(vehicles[i])
                      /\ Len(vehicles[i].route) = 0}
    IN  (IF ofSelected = {} THEN 0 ELSE 1) + Cardinality(ofLoop)

\* The ids the loop over all vehicles caches from the vehicle's own route
cachedFromVehicle ==
    {vehicles[i].id : i \in {j \in 1..Len(vehicles) :
                                needsRoute(vehicles[j]) /\ Len(vehicles[j].route) > 0}}

RECURSIVE Total(_, _)
\* The sum of f over the ids S
Total(f, S) ==
    IF S = {} THEN 0
    ELSE LET id == CHOOSE x \in S : TRUE IN f[id] + Total(f, S \ {id})

\* One run of the effect, after a change of selectedVehicleId, vehicles or
\* routes: every fetch it starts is in flight when it returns
routeEffect ==
    /\ effectDue
    /\ fetching' = [id \in VehicleIds |-> fetching[id] + fetchesStarted(id)]
    /\ Total(fetching', VehicleIds) <= MaxFetches
    /\ routes' = routes \cup cachedFromVehicle
    /\ effectDue' = (cachedFromVehicle # {})
    /\ UNCHANGED serverVars
    /\ UNCHANGED <<vehicles, simulationInterval, timers, importing, initializing,
                   nextTimerId, starts, stopped, now, ticks, console, probe,
                   selectedVehicleId, fetchOutcome>>

\* A fetch for vehicle id answers with routes: setRoutes, then
\* updateVehicleRoute(vehicle.id, routePositions)
fetchSucceeds(id, route) ==
    /\ fetching[id] > 0
    /\ fetching' = [fetching EXCEPT ![id] = @ - 1]
    /\ routes' = routes \cup {id}
    /\ vehicles' = withRoute(vehicles, id, route)
    /\ fetchOutcome' = [vehicleId |-> id, ok |-> TRUE, at |-> now]
    /\ effectDue' = TRUE
    /\ UNCHANGED serverVars
    /\ UNCHANGED <<simulationInterval, timers, importing, initializing,
                   nextTimerId, starts, stopped, now, ticks, console, probe,
                   selectedVehicleId>>

\* Mutant of fetchFails: the failure clears the vehicle's route
fetchFailsClearingRoute(id) ==
    /\ fetching[id] > 0
    /\ fetching' = [fetching EXCEPT ![id] = @ - 1]
    /\ fetchOutcome' = [vehicleId |-> id, ok |-> FALSE, at |-> now]
    /\ vehicles' = withRoute(vehicles, id, <<>>)
    /\ effectDue' = TRUE
    /\ UNCHANGED serverVars
    /\ UNCHANGED <<simulationInterval, timers, importing, initializing,
                   nextTimerId, starts, stopped, now, ticks, console, probe,
                   selectedVehicleId, routes>>

\* A fetch for vehicle id throws, or answers without routes: console.error
\* in the catch block or in the else branch, and nothing else
fetchFails(id) ==
    /\ fetching[id] > 0
    /\ fetching' = [fetching EXCEPT ![id] = @ - 1]
    /\ fetchOutcome' = [vehicleId |-> id, ok |-> FALSE, at |-> now]
    /\ UNCHANGED serverVars
    /\ UNCHANGED <<vehicles, simulationInterval, timers, importing, initializing,
                   nextTimerId, starts, stopped, now, ticks, console, probe,
                   selectedVehicleId, routes, effectDue>>

\* The map mounted over the initial fleet, the simulation's interval running
MapInit ==
    /\ vehicles \in InitialFleets
    /\ simulationInterval = <<1>>
    /\ timers = {1}
    /\ importing = 0
    /\ initializing = 0
    /\ nextTimerId = 2
    /\ starts = 1
    /\ stopped = FALSE
    /\ now = 10000
    /\ ticks = 0
    /\ console = <<>>
    /\ probe = <<>>
    /\ selectedVehicleId = <<>>
    /\ routes = {}
    /\ fetching = [id \in VehicleIds |-> 0]
    /\ fetchOutcome = <<>>
    /\ effectDue = TRUE
    /\ driver = NewDriver
    /\ requests = 0

MapNext ==
    \/ routeEffect
    \/ \E id \in VehicleIds, route \in FetchedRoutes : fetchSucceeds(id, route)
    \/ \E id \in VehicleIds : fetchFails(id)
    \/ \E selection \in {<<>>} \cup {<<vehicles[i].id>> : i \in 1..Len(vehicles)} :
           setSelectedVehicle(selection)
    \/ \E id \in 1..MaxStarts : intervalFires(id)
    \/ \E vehicle \in {v \in NewVehicles : v.destination.defined} : addVehicle(vehicle)
    \/ \E i \in 1..Len(vehicles) : removeVehicle(vehicles[i].id)

MapSpec == MapInit /\ [][MapNext]_vars

----------------------------------------------------------------------------
(* server/routes/drivers.js: the requests for one driver, handled one after
   the other *)

\* req.body.jobId of the job requests
JobIds == {"job-1", "job-2"}

\* req.body.payment of a completion, in rupees
Payments == {100, 250}

\* req.body.paymentStatus of a payment update
PaymentStatuses == {"pending", "paid"}

\* POST /:id/jobs/active
addActiveJob(jobId) ==
    /\ requests < MaxRequests
    /\ requests' = requests + 1
    /\ driver' = [driver EXCEPT
                      !.activeJobs = Append(@, [jobId |-> jobId, status |-> "assigned"]),
                      !.status = "on-duty"]
    /\ UNCHANGED clientVars

\* POST /:id/jobs/complete
completeJob(jobId, payment) ==
    /\ requests < MaxRequests
    /\ requests' = requests + 1
    /\ LET remaining == SelectSeq(driver.activeJobs, LAMBDA job : job.jobId # jobId)
       IN  driver' = [driver EXCEPT
                         !.completedJobs = Append(@, [jobId |-> jobId, payment |-> payment,
                                                      status |-> "completed"]),
                         !.earningsHistory = Append(@, [jobId |-> jobId,
                                                        totalEarnings |-> payment,
                                                        paymentStatus |-> "pending"]),
                         !.totalDeliveries = @ + 1,
                         !.totalEarnings = @ + payment,
                         !.currentMonthEarnings = @ + payment,
                         !.pendingEarnings = @ + payment,
                         !.activeJobs = remaining,
                         !.status = IF Len(remaining) = 0 THEN "active" ELSE @]
    /\ UNCHANGED clientVars

\* PATCH /:id/earnings/:earningId/payment, for the earningId of the record
\* at index k of earningsHistory
updatePaymentStatus(k, paymentStatus) ==
    /\ requests < MaxRequests
    /\ k \in 1..Len(driver.earningsHistory)
    /\ requests' = requests + 1
    /\ driver' = [driver EXCEPT
                      !.earningsHistory[k].paymentStatus = paymentStatus,
                      !.pendingEarnings =
                          IF paymentStatus = "paid"
                          THEN @ - driver.earningsHistory[k].totalEarnings
                          ELSE @]
    /\ UNCHANGED clientVars

DriverInit ==
    /\ vehicles \in InitialFleets
    /\ simulationInterval = <<>>
    /\ timers = {}
    /\ importing = 0
    /\ initializing = 0
    /\ nextTimerId = 1
    /\ starts = 0
    /\ stopped = FALSE
    /\ now = 10000
    /\ ticks = 0
    /\ console = <<>>
    /\ probe = <<>>
    /\ selectedVehicleId = <<>>
    /\ routes = {}
    /\ fetching = [id \in VehicleIds |-> 0]
    /\ fetchOutcome = <<>>
    /\ effectDue = TRUE
    /\ driver = NewDriver
    /\ requests = 0

DriverNext ==
    \/ \E jobId \in JobIds : addActiveJob(jobId)
    \/ \E jobId \in JobIds, payment \in Payments : completeJob(jobId, payment)
    \/ \E k \in 1..MaxRequests, paymentStatus \in PaymentStatuses :
           updatePaymentStatus(k, paymentStatus)

DriverSpec == DriverInit /\ [][DriverNext]_vars

----------------------------------------------------------------------------
(* Properties *)

\* The snapshot the last update of vehicle v appended: its status, speed and
\* position before that update
Previous(v) == v.statusHistory[Len(v.statusHistory)]

Updated == ticks > 0 /\ Len(probe) = Len(vehicles)

\* C1: after any number of updates, whatever currentSpeed the vehicle
\* started with and whichever random branches fired, 0 <= currentSpeed <= 100
C1_SpeedWithinLimit ==
    ticks > 0 =>
        \A i \in 1..Len(vehicles) :
            vehicles[i].currentSpeed >= 0 /\ vehicles[i].currentSpeed <= SPEED_LIMIT

\* An update of a vehicle that came in at 150 km/h and left at the 98 km/h cap
C1_Witness ==
    /\ ticks = 1
    /\ Previous(vehicles[1]).speed = 1500
    /\ vehicles[1].currentSpeed = 980

\* The records console.warn wrote for vehicle id in the last batch
ViolationsOf(id) ==
    {k \in 1..Len(console) : console[k].vehicleId = id /\ console[k].timestamp = now}

\* C2: a tick whose perturbed speed exceeds 100 km/h writes exactly one
\* violation record for the vehicle, with observedSpeed > 100, and stores a
\* currentSpeed of at most 100; a tick whose perturbed speed is at most 100
\* writes none
C2_ViolationRecorded ==
    Updated =>
        \A i \in 1..Len(vehicles) :
            IF probe[i].raw > SPEED_LIMIT
            THEN /\ Cardinality(ViolationsOf(vehicles[i].id)) = 1
                 /\ \A k \in ViolationsOf(vehicles[i].id) :
                        console[k].observedSpeed > SPEED_LIMIT
                 /\ vehicles[i].currentSpeed <= SPEED_LIMIT
            ELSE ViolationsOf(vehicles[i].id) = {}

\* C3: once stopGPSSimulation has been called and startGPSSimulation has not
\* been called since, no batch update runs
C3_NoTickAfterStop == [][stopped => ticks' = ticks]_vars

\* C4: at most one interval is active at any time
C4_SingleTimer == Cardinality(timers) <= 1

\* C5: a batch update updates every vehicle that has a destination, also
\* when another vehicle of the batch has none
C5_FailureIsolated ==
    [][ticks' = ticks + 1 =>
          \A i \in 1..Len(vehicles) :
              vehicles[i].destination.defined =>
                  /\ Len(vehicles') = Len(vehicles)
                  /\ vehicles'[i] # vehicles[i]]_vars

Arrived(v) ==
    /\ v.position = Pos(v.destination.lat, v.destination.lng)
    /\ v.currentSpeed = 0

\* C6, as stated: a vehicle less than 100 m from its destination before a
\* tick is on its destination with speed 0 after it
C6_SnapFromBefore ==
    Updated =>
        \A i \in 1..Len(vehicles) :
            withinOfDestination(Previous(vehicles[i]).position, vehicles[i], ArrivalRadius)
                => Arrived(vehicles[i])

\* C6, amended: a vehicle that the tick's move takes to less than 100 m from
\* its destination is on its destination with speed 0 after the tick, with
\* or without a route
C6_SnapAfterMove ==
    Updated =>
        \A i \in 1..Len(vehicles) :
            Dist2(probe[i].moved, vehicles[i].destination) < ArrivalRadius * ArrivalRadius
                => Arrived(vehicles[i])

\* A vehicle 50 m from its destination, without a route, has been moved and
\* snapped onto the destination
C6_Witness ==
    /\ ticks = 1
    /\ Len(vehicles[1].route) = 0
    /\ Previous(vehicles[1]).position = Pos(0, 0)
    /\ Previous(vehicles[1]).speed = 400
    /\ vehicles[1].destination = Dest(30, 40)
    /\ probe[1].moved # Pos(0, 0)
    /\ Arrived(vehicles[1])

\* C7: when the route point closest to the vehicle is the last one, the
\* tick's heading is the bearing from the vehicle to the destination
C7_LastPointTargetsDestination ==
    Updated =>
        \A i \in 1..Len(vehicles) :
            LET v == vehicles[i]
                before == Previous(v).position
            IN  (/\ Len(v.route) > 2
                 /\ findClosestRoutePoint(before, v.route) = Len(v.route) - 1)
                    => v.heading = normalizeHeading(
                           Atan2Deg(v.destination.lng - before.lng,
                                    v.destination.lat - before.lat))

\* C8: a tick displaces the vehicle by currentSpeed * (4 / 3600) km
C8_DisplacementOfTick ==
    Updated =>
        \A i \in 1..Len(vehicles) :
            probe[i].distance =
                RoundDiv(Previous(vehicles[i]).speed * 100 * TickSeconds, 3600)

\* C9: after any number of updates statusHistory holds at most 450 entries
C9_HistoryBounded ==
    ticks > 0 => \A i \in 1..Len(vehicles) : Len(vehicles[i].statusHistory) <= HISTORY_CAP

\* A history that came in with 453 entries has been cut to 450
C9_Witness ==
    /\ ticks = 1
    /\ Len(vehicles[1].statusHistory) = HISTORY_CAP
    /\ vehicles[1].statusHistory[1].timestamp = 5

\* C10: an update leaves in statusHistory the last 450 entries of the earlier
\* history followed by the new snapshot, in their order
C10_HistoryFifo ==
    [][ticks' = ticks + 1 =>
          \A i \in 1..Len(vehicles) :
              vehicles[i].destination.defined =>
                  LET old == vehicles[i].statusHistory
                      new == vehicles'[i].statusHistory
                      kept == Min(Len(old) + 1, HISTORY_CAP)
                      dropped == Len(old) + 1 - kept
                  IN  /\ Len(new) = kept
                      /\ new[kept].timestamp = now'
                      /\ new[kept].speed = vehicles[i].currentSpeed
                      /\ new[kept].position = vehicles[i].position
                      /\ new[kept].status = vehicles[i].status
                      /\ \A k \in 1..(kept - 1) : new[k] = old[dropped + k]]_vars

\* A full history of 450 entries has lost its oldest entry and gained the
\* new snapshot at its end
C10_Witness ==
    /\ ticks = 1
    /\ Len(vehicles[1].statusHistory) = HISTORY_CAP
    /\ vehicles[1].statusHistory[1].timestamp = 2
    /\ vehicles[1].statusHistory[HISTORY_CAP - 1].timestamp = HISTORY_CAP
    /\ vehicles[1].statusHistory[HISTORY_CAP].timestamp = now

\* C11: after every tick the stored heading h satisfies 0 <= h < 360, on
\* the route branch, at the end of a route and on the direct line, wherever
\* the vehicle is relative to its target
C11_HeadingInRange ==
    ticks > 0 =>
        \A i \in 1..Len(vehicles) :
            vehicles[i].heading >= 0 /\ vehicles[i].heading < 360

\* A vehicle whose destination lies due west, a bearing of -90 degrees, has
\* been given the heading 270
C11_Witness ==
    /\ Updated
    /\ vehicles[1].destination = Dest(0, 0 - 300)
    /\ Previous(vehicles[1]).position = Pos(0, 0)
    /\ Atan2Deg(probe[1].target.lng - 0, probe[1].target.lat - 0) = 0 - 90
    /\ vehicles[1].heading = 270

\* C12: a tick never changes a vehicle's route, whatever the draws are
C12_RouteKeptByTick ==
    [][ticks' = ticks + 1 =>
          /\ Len(vehicles') = Len(vehicles)
          /\ \A i \in 1..Len(vehicles) : vehicles'[i].route = vehicles[i].route]_vars

\* A vehicle with a route of 4 points has gone through a tick in which the
\* highway burst fired, and has its 4 points
C12_Witness ==
    /\ Updated
    /\ Previous(vehicles[1]).speed = 1500
    /\ probe[1].raw = 850 + 129
    /\ vehicles[1].route = <<Pos(0, 0), Pos(1000, 0), Pos(1000, 1000), Pos(2000, 1000)>>

\* C14: with a route of more than 2 points whose point closest to the
\* vehicle, the first such point, is not the last one, the tick heads to the
\* point that follows it in the route and to no other
C14_NextWaypointExactly ==
    Updated =>
        \A i \in 1..Len(vehicles) :
            LET v == vehicles[i]
                before == Previous(v).position
            IN  \A k \in 1..(Len(v.route) - 1) :
                    (/\ Len(v.route) > 2
                     /\ \A j \in 1..Len(v.route) :
                            Dist2(before, v.route[k]) <= Dist2(before, v.route[j])
                     /\ \A j \in 1..(k - 1) :
                            Dist2(before, v.route[k]) < Dist2(before, v.route[j]))
                        => /\ probe[i].target = v.route[k + 1]
                           /\ v.heading = normalizeHeading(
                                  Atan2Deg(v.route[k + 1].lng - before.lng,
                                           v.route[k + 1].lat - before.lat))

\* A vehicle next to the second point of its route of 4 points has headed to
\* the third point, due north of it
C14_Witness ==
    /\ Updated
    /\ Len(vehicles[1].route) = 4
    /\ Previous(vehicles[1]).position = Pos(990, 20)
    /\ probe[1].target = Pos(1000, 1000)
    /\ vehicles[1].heading = 89

\* C15: a vehicle with a destination whose route is absent, empty or of at
\* most 2 points is updated without an error and is moved on the bearing
\* from its position to its destination, as a vehicle with no route is
C15_ShortRouteIsDirectLine ==
    ticks > 0 =>
        \A i \in 1..Len(vehicles) :
            LET v == vehicles[i]
            IN  (Len(v.route) <= 2 /\ v.destination.defined) =>
                    /\ Len(probe) = Len(vehicles)
                    /\ LET before == Previous(v).position
                           bearing == Atan2Deg(v.destination.lng - before.lng,
                                               v.destination.lat - before.lat)
                       IN  /\ probe[i].target = Pos(v.destination.lat, v.destination.lng)
                           /\ v.heading = normalizeHeading(bearing)
                           /\ probe[i].moved =
                                  calculateNewPosition(before, probe[i].distance, bearing)

\* A vehicle with a route of 1 point that lies off the direct line has
\* headed to its destination, and so has a vehicle with a route of 2 points
C15_Witness ==
    /\ Updated
    /\ Len(vehicles[1].route) = 1
    /\ vehicles[1].route[1] = Pos(0, 800)
    /\ probe[1].target = Pos(1000, 1000)
    /\ vehicles[1].heading = 45

\* Behind schedule, as calculateVehicleStatus sees a vehicle at the time now:
\* a scheduled arrival is present and the speed is below the average speed
\* that the remaining distance and time require
BehindSchedule(v) ==
    /\ Len(v.scheduledETA) = 1
    /\ LET remaining == v.scheduledETA[1] - now
           metres == Sqrt(Dist2(v.position, v.destination))
       IN  \/ remaining > 0 /\ v.currentSpeed * remaining < metres * 36
           \/ remaining = 0 /\ metres > 0

\* Stalled, as calculateVehicleStatus sees a vehicle at the time now: below
\* 8 km/h with a stop time more than 10 minutes old
Stalled(v) ==
    /\ v.currentSpeed < 80
    /\ Len(v.lastStopTime) = 1
    /\ now - v.lastStopTime[1] > 600

C19_StationaryTracking ==
    [][ticks' = ticks + 1 =>
          \A i \in 1..Len(vehicles) :
              vehicles[i].destination.defined =>
                  LET before == vehicles[i].lastStopTime
                      after == vehicles'[i].lastStopTime
                      speed == vehicles'[i].currentSpeed
                  IN  /\ (speed < 50 /\ before = <<>>) => after = <<now'>>
                      /\ (speed < 50 /\ before # <<>>) => after = before
                      /\ speed >= 50 => after = <<>>]_vars

\* A vehicle stopped on its destination since 9000 has gone through two more
\* ticks at speed 0 and still has the stop time 9000
C19_Witness ==
    /\ ticks = 2
    /\ Updated
    /\ vehicles[1].currentSpeed = 0
    /\ Previous(vehicles[1]).speed = 0
    /\ vehicles[1].lastStopTime = <<9000>>

\* C20: the snapshot a tick appends to statusHistory is the status, speed
\* and position the vehicle had before the tick, so that from the second
\* tick on it is the state the tick before produced
C20_SnapshotOfBefore ==
    [][ticks' = ticks + 1 =>
          \A i \in 1..Len(vehicles) :
              vehicles[i].destination.defined =>
                  vehicles'[i].statusHistory[Len(vehicles'[i].statusHistory)] =
                      [timestamp |-> now', status |-> vehicles[i].status,
                       speed |-> vehicles[i].currentSpeed,
                       position |-> vehicles[i].position]]_vars

\* The second tick of a moving vehicle has appended the speed and position
\* that the first tick produced, which are not those it produced itself
C20_Witness ==
    /\ ticks = 2
    /\ Updated
    /\ Len(vehicles[1].statusHistory) = 2
    /\ Previous(vehicles[1]).position # vehicles[1].statusHistory[1].position
    /\ Previous(vehicles[1]).position # vehicles[1].position
    /\ Previous(vehicles[1]).speed # vehicles[1].currentSpeed

C16_NoDestinationFails ==
    [][ticks' = ticks + 1 =>
          \A i \in 1..Len(vehicles) :
              ~vehicles[i].destination.defined =>
                  /\ probe' = <<>>
                  /\ Len(vehicles') = Len(vehicles)
                  /\ vehicles'[i] = vehicles[i]]_vars

\* A tick has run over a collection that holds a vehicle without a
\* destination: it ended in the error and the vehicle has no snapshot
C16_Witness ==
    /\ ticks > 0
    /\ probe = <<>>
    /\ \E i \in 1..Len(vehicles) :
           /\ ~vehicles[i].destination.defined
           /\ vehicles[i].statusHistory = <<>>
           /\ vehicles[i].heading = 0

\* C18: a route fetch that fails raises nothing and leaves the vehicle
\* collection as it is, routes included; a route changes only when a fetch
\* succeeds, and as long as a vehicle has no route points every tick steers
\* it to its destination
C18_FetchFailureHarmless ==
    [][/\ \A id \in VehicleIds :
              (/\ fetching'[id] < fetching[id]
               /\ fetchOutcome' = [vehicleId |-> id, ok |-> FALSE, at |-> now])
                  => /\ vehicles' = vehicles
                     /\ ticks' = ticks
                     /\ probe' = probe
                     /\ console' = console
                     /\ timers' = timers
       /\ \A i \in 1..Len(vehicles) :
              (/\ Len(vehicles') = Len(vehicles)
               /\ vehicles'[i].id = vehicles[i].id
               /\ vehicles'[i].route # vehicles[i].route)
                  => /\ fetching'[vehicles[i].id] < fetching[vehicles[i].id]
                     /\ fetchOutcome' = [vehicleId |-> vehicles[i].id, ok |-> TRUE, at |-> now]
       /\ ticks' = ticks + 1 =>
              \A i \in 1..Len(vehicles) :
                  (vehicles[i].destination.defined /\ vehicles[i].route = <<>>
                   /\ Len(probe') = Len(vehicles))
                      => probe'[i].target =
                             Pos(vehicles[i].destination.lat, vehicles[i].destination.lng)]_vars

\* The fetch for v1 failed before the first tick; both ticks since have
\* steered v1, still without a route, to its destination, while a second
\* fetch for it is in flight
C18_Witness ==
    /\ fetchOutcome = [vehicleId |-> "v1", ok |-> FALSE, at |-> 10000]
    /\ ticks = 2
    /\ Len(vehicles) = 1
    /\ Len(probe) = 1
    /\ vehicles[1].id = "v1"
    /\ vehicles[1].route = <<>>
    /\ Len(vehicles[1].statusHistory) = 2
    /\ probe[1].target = Pos(3000, 4000)
    /\ fetching["v1"] = 1

\* The distance from the position the last tick moved vehicle i to, before
\* any snap, to its destination is at least lo and below hi metres
MovedWithin(i, lo, hi) ==
    LET d2 == Dist2(probe[i].moved, vehicles[i].destination)
    IN  lo * lo <= d2 /\ d2 < hi * hi

\* C21: after a tick that moved the vehicle to less than 500 m and at least
\* 100 m from its destination, currentSpeed is at most 20 km/h, also when
\* the highway burst fired in that tick
C21_DecelerationZone ==
    Updated =>
        \A i \in 1..Len(vehicles) :
            MovedWithin(i, ArrivalRadius, SlowRadius) => vehicles[i].currentSpeed <= 200

\* A vehicle 300 m from its destination has been moved to 278 m from it in
\* a tick whose highway burst set 97.9 km/h, and has the speed 20 km/h
C21_Witness ==
    /\ ticks = 1
    /\ Updated
    /\ vehicles[1].destination = Dest(0, 0 - 300)
    /\ Previous(vehicles[1]).speed = 400
    /\ probe[1].raw = 850 + 129
    /\ MovedWithin(1, ArrivalRadius, SlowRadius)
    /\ vehicles[1].currentSpeed = 200

\* C22: a tick leaves a defined cargoTemperature within 0..10 degrees and
\* at most 0.25 degrees from what it was, and an undefined one undefined
C22_TemperatureDrift ==
    [][ticks' = ticks + 1 =>
          \A i \in 1..Len(vehicles) :
              vehicles[i].destination.defined =>
                  LET before == vehicles[i].cargoTemperature
                      after == vehicles'[i].cargoTemperature
                  IN  IF before = <<>> THEN after = <<>>
                      ELSE /\ Len(after) = 1
                           /\ after[1] >= 0 /\ after[1] <= 1000
                           /\ after[1] - before[1] <= 25
                           /\ before[1] - after[1] <= 25]_vars

\* A cargo at 9.90 degrees has been through three ticks and is at 10
\* degrees, where the clamp holds an upward draw
C22_Witness ==
    /\ ticks = 3
    /\ Updated
    /\ vehicles[1].cargoTemperature = <<1000>>
    /\ vehicles[1].position = Pos(500, 500)

\* C23: a batch update returns the same vehicles in the same order, and
\* the new state of each vehicle that has a destination is the update of
\* that vehicle alone, whatever the other vehicles of the batch are
C23_ElementWise ==
    [][ticks' = ticks + 1 =>
          /\ Len(vehicles') = Len(vehicles)
          /\ \A i \in 1..Len(vehicles) :
                 /\ vehicles'[i].id = vehicles[i].id
                 /\ vehicles[i].destination.defined =>
                        \E rnd \in TickDraws(vehicles[i]) :
                            vehicles'[i] = simulateGPSUpdate(vehicles[i], rnd, now')]_vars

\* C24: a tick applied to a vehicle that is on its destination with speed
\* 0 leaves it on its destination with speed 0, whatever the draws and
\* with or without a route
C24_ArrivalAbsorbing ==
    [][ticks' = ticks + 1 =>
          \A i \in 1..Len(vehicles) :
              (vehicles[i].destination.defined /\ Arrived(vehicles[i]))
                  => Arrived(vehicles'[i])]_vars

\* A vehicle with a route of 3 points was snapped to its destination by the
\* first tick, and the second tick, in which the highway burst fired, has
\* left it there with speed 0
C24_Witness ==
    /\ ticks = 2
    /\ Updated
    /\ Len(vehicles[1].route) = 3
    /\ vehicles[1].destination = Dest(60, 0)
    /\ vehicles[1].statusHistory[1].position = Pos(0, 0)
    /\ Previous(vehicles[1]).position = Pos(60, 0)
    /\ Previous(vehicles[1]).speed = 0
    /\ probe[1].raw = 850 + 129
    /\ Arrived(vehicles[1])

\* C26: after a tick lastStopTime is set exactly when the vehicle is on its
\* destination with speed 0, and a vehicle that is not has a speed of 5 to
\* 98 km/h and no lastStopTime
C26_StopTimeOnlyOnArrival ==
    Updated =>
        \A i \in 1..Len(vehicles) :
            LET v == vehicles[i]
            IN  /\ v.lastStopTime # <<>> <=> Arrived(v)
                /\ v.currentSpeed = 0 <=> Arrived(v)
                /\ ~Arrived(v) => /\ v.currentSpeed >= 50
                                  /\ v.currentSpeed <= 980
                                  /\ v.lastStopTime = <<>>

\* A vehicle 5 km from its destination that came in with speed 0 has left
\* the tick at 5 km/h, without a stop time and not arrived
C26_Witness ==
    /\ ticks = 1
    /\ Updated
    /\ vehicles[1].destination = Dest(3000, 4000)
    /\ Previous(vehicles[1]).speed = 0
    /\ vehicles[1].scheduledETA = <<10100>>
    /\ vehicles[1].currentSpeed = 50
    /\ vehicles[1].lastStopTime = <<>>
    /\ ~Arrived(vehicles[1])

\* C25: under repeated ticks every vehicle with a destination is
\* eventually on its destination with speed 0, on the direct line and on a
\* route whose last point is more than 100 m from the destination, from a
\* standing start too
C25_EventuallyArrives ==
    <>(\A i \in 1..Len(vehicles) : Arrived(vehicles[i]))

\* The vehicles on the direct line arrive: a vehicle without a route is
\* eventually on its destination with speed 0
C25_DirectLineArrives ==
    <>(\A i \in 1..Len(vehicles) :
           Len(vehicles[i].route) = 0 => Arrived(vehicles[i]))

\* The ids of the vehicles in the collection vs
IdsOf(vs) == {vs[i].id : i \in 1..Len(vs)}

\* C27: a vehicle id that is not in the collection enters it only by
\* addVehicle appending that vehicle; a tick or the updateVehicleRoute of a
\* route fetch that ends after the vehicle was removed leaves the
\* collection without it, and the update changes no vehicle at all
C27_RemovedStaysRemoved ==
    [][\A id \in VehicleIds :
           id \notin IdsOf(vehicles) =>
               /\ id \in IdsOf(vehicles') =>
                      \E vehicle \in NewVehicles :
                          vehicle.id = id /\ vehicles' = Append(vehicles, vehicle)
               /\ fetching'[id] < fetching[id] => vehicles' = vehicles
               /\ ticks' = ticks + 1 => id \notin IdsOf(vehicles')]_vars

\* The fetch started for job-1 has delivered a route; job-1, removed while
\* the fetch was in flight or after it, is not in the collection, and a tick
\* has run since
C27_Witness ==
    /\ fetchOutcome # <<>>
    /\ fetchOutcome.vehicleId = "job-1"
    /\ fetchOutcome.ok
    /\ "job-1" \in routes
    /\ "job-1" \notin IdsOf(vehicles)
    /\ fetchOutcome.at < now
    /\ Len(vehicles) = 1

\* C28: for each vehicle at most one route fetch is in flight at a time
C28_OneFetchPerVehicle ==
    \A id \in VehicleIds : fetching[id] <= 1

RECURSIVE PendingSum(_)
\* The sum of totalEarnings over the records of an earnings history whose
\* paymentStatus is pending
PendingSum(history) ==
    IF Len(history) = 0 THEN 0
    ELSE (IF history[1].paymentStatus = "pending" THEN history[1].totalEarnings ELSE 0)
             + PendingSum(Tail(history))

\* C29: after any sequence of job completions and payment-status updates,
\* pendingEarnings is the sum of totalEarnings over the earnings records
\* that are pending, and so is never negative
C29_PendingEarningsIsSum ==
    /\ driver.pendingEarnings = PendingSum(driver.earningsHistory)
    /\ driver.pendingEarnings >= 0

\* The job ids of a list of job records
JobIdsOf(jobs) == {jobs[k].jobId : k \in 1..Len(jobs)}

\* C30: a completion request for a job id that is already completed, or
\* that is not among the driver's active jobs, changes neither the counters
\* nor completedJobs nor earningsHistory: a step that adds a completed job
\* does so for an active job that was not completed before
C30_CompletionIdempotent ==
    [][(\/ driver'.completedJobs # driver.completedJobs
        \/ driver'.totalDeliveries # driver.totalDeliveries
        \/ driver'.totalEarnings # driver.totalEarnings
        \/ driver'.currentMonthEarnings # driver.currentMonthEarnings)
          => LET done == driver'.completedJobs[Len(driver'.completedJobs)]
             IN  /\ done.jobId \in JobIdsOf(driver.activeJobs)
                 /\ done.jobId \notin JobIdsOf(driver.completedJobs)]_vars

====
